---- MODULE Spec2Model ----
(***************************************************************************)
(* Model of kraken/site.py (Dyko): the Site WSGI application.              *)
(*                                                                         *)
(* Strings are sequences of atoms.  An atom is a piece of text that is     *)
(* never cut: "/" is the path separator, "." the dot, "__" two underscores *)
(* and the other atoms ("foo", "index", "genshi", ...) are words without   *)
(* "/", "." or "_".  Two strings are equal iff their atom sequences are.   *)
(* The parent-directory segment ".." is therefore <<".", ".">>.            *)
(***************************************************************************)
EXTENDS Integers, Sequences, FiniteSets, TLC

VARIABLES
    engines,        \* koral_site.engines: the names of the registered engines
    files,          \* the filesystem: filename -> [content, mtime]
    clock,          \* the next modification time the filesystem hands out
    module_cache,   \* Site._module_cache: filename -> [module, mtime]
    phase,          \* "idle", or "done" when the variables below describe a call
    path,           \* request.path (or the name given to load_python_module)
    attempted,      \* the resolvers __call__ entered, in order
    fsops,          \* the filenames tested, listed, stat-ed or executed, in order
    template,       \* what find_template returned (None or a triple)
    python,         \* what handle_python did: loads, invocation, strategy B trace
    response,       \* what the call returned or raised
    executed,       \* the module files the call executed: <<filename, mtime>>
    history,        \* <<filename, mtime>> -> how often the file was executed
                    \* after that timestamp was read, since construction
    threads         \* the position of every thread inside load_python_module

vars == <<engines, files, clock, module_cache, phase, path, attempted, fsops,
          template, python, response, executed, history, threads>>

-----------------------------------------------------------------------------
(* Bounds *)

\* the longest request path, in slash-separated segments after the leading "/"
MaxSegs == 2

\* the last modification time the filesystem hands out
MaxClock == 3

-----------------------------------------------------------------------------
(* Strings *)

Slash == "/"
Dot == "."
DotDot == <<".", ".">>
None == <<>>

Last(s) == s[Len(s)]
Front(s) == SubSeq(s, 1, Len(s) - 1)

\* unicode.startswith / endswith
StartsWith(s, p) == Len(p) <= Len(s) /\ SubSeq(s, 1, Len(p)) = p
EndsWith(s, p) == Len(p) <= Len(s) /\ SubSeq(s, Len(s) - Len(p) + 1, Len(s)) = p

\* `sub in s`
Contains(s, sub) ==
    \E i \in 0..(Len(s) - Len(sub)) : SubSeq(s, i + 1, i + Len(sub)) = sub

\* s.split(u'/'): the list of the pieces between the slashes (never empty)
RECURSIVE Split(_)
Split(s) ==
    IF \A i \in 1..Len(s) : s[i] # Slash
    THEN <<s>>
    ELSE LET i == CHOOSE k \in 1..Len(s) :
                      s[k] = Slash /\ \A j \in 1..(k - 1) : s[j] # Slash
         IN  <<SubSeq(s, 1, i - 1)>> \o Split(SubSeq(s, i + 1, Len(s)))

\* sep.join(parts), sep a single atom
RECURSIVE Join(_, _)
Join(sep, parts) ==
    IF parts = <<>> THEN <<>>
    ELSE IF Len(parts) = 1 THEN parts[1]
    ELSE parts[1] \o <<sep>> \o Join(sep, Tail(parts))

\* s.strip(u'/')
RECURSIVE Strip(_)
Strip(s) ==
    IF s # <<>> /\ s[1] = Slash THEN Strip(Tail(s))
    ELSE IF s # <<>> /\ Last(s) = Slash THEN Strip(Front(s))
    ELSE s

\* the filter `if part and part != u'..'` of the three list comprehensions
KeepPart(part) == part # <<>> /\ part # DotDot

\* [part for part in s.split(u'/') if part and part != u'..']
CleanParts(s) == SelectSeq(Split(s), KeepPart)

\* os.path.join(a, *parts) on a POSIX host
RECURSIVE OsPathJoin(_, _)
OsPathJoin(a, parts) ==
    IF parts = <<>> THEN a
    ELSE LET b == parts[1]
             joined == IF b # <<>> /\ b[1] = Slash THEN b
                       ELSE IF a = <<>> \/ Last(a) = Slash THEN a \o b
                       ELSE a \o <<Slash>> \o b
         IN  OsPathJoin(joined, Tail(parts))

-----------------------------------------------------------------------------
(* The filesystem *)

\* Site.site_root, as given to the constructor (no trailing slash)
site_root == <<"/", "site">>

\* os.path.isfile(filename)
IsFile(filename) == filename \in DOMAIN files

\* os.path.isdir(dirname): the site root, or a directory that holds something
IsDir(dirname) ==
    /\ dirname \notin DOMAIN files
    /\ \/ dirname = site_root
       \/ \E f \in DOMAIN files : StartsWith(f, dirname \o <<Slash>>)

\* os.listdir(dirname): the names of the entries of the directory
ListDir(dirname) ==
    { Split(SubSeq(f, Len(dirname) + 2, Len(f)))[1] :
        f \in { g \in DOMAIN files : StartsWith(g, dirname \o <<Slash>>) } }

\* os.stat(filename).st_mtime
StatMtime(filename) == files[filename].mtime

-----------------------------------------------------------------------------
(* Python modules *)

\* the empty dictionary {}
EmptyDict == [k \in {} |-> 0]

\* `'handle_request' in module`
HasHandler(module) == "handle_request" \in DOMAIN module

\* utils.arg_count(handler): the number of parameters the handler declares.
\* A handler is modelled by that number.
arg_count(handler) == handler

\* 'kraken.site.' + '.'.join(parts)
ModuleName(parts) == <<"kraken.site.">> \o Join(Dot, parts)

\* execfile(filename, namespace): the seeded namespace plus everything the
\* file binds at top level.  The content of a file is the record of the names
\* it binds.
Exec(filename, parts) ==
    [__name__ |-> ModuleName(parts)] @@ files[filename].content

\* lines 140-141: the file a module name stands for
ModuleParts(name) == CleanParts(name)
ModuleFilename(name) == OsPathJoin(site_root, ModuleParts(name)) \o <<".", "py">>

\* lines 145-150: the cache holds the file with the timestamp just read
CacheHitAlways(cache, filename, mtime) == filename \in DOMAIN cache
CacheHit(cache, filename, mtime) ==
    filename \in DOMAIN cache /\ cache[filename].mtime = mtime

\* line 154: self._module_cache[filename] = (namespace, mtime)
CacheStoreStatAgain(cache, filename, namespace, mtime) ==
    [f \in DOMAIN cache \cup {filename} |->
        IF f = filename
        THEN [module |-> namespace, mtime |-> files[filename].mtime]
        ELSE cache[f]]
CacheStore(cache, filename, namespace, mtime) ==
    [f \in DOMAIN cache \cup {filename} |->
        IF f = filename THEN [module |-> namespace, mtime |-> mtime]
        ELSE cache[f]]

\* Site.load_python_module(name), run without interruption on the cache
\* `cache`: the module returned, the cache left behind, the filenames touched
\* and the executions made.
load_python_module(cache, name) ==
    LET parts == ModuleParts(name)
        filename == ModuleFilename(name)
    IN  IF ~IsFile(filename)
        THEN [module |-> EmptyDict, cache |-> cache,
              fsops |-> <<filename>>, executed |-> <<>>]
        ELSE LET mtime == StatMtime(filename)
             IN  IF CacheHit(cache, filename, mtime)
                 THEN [module |-> cache[filename].module, cache |-> cache,
                       fsops |-> <<filename, filename>>, executed |-> <<>>]
                 ELSE LET namespace == Exec(filename, parts)
                      IN  [module |-> namespace,
                           cache |-> CacheStore(cache, filename, namespace, mtime),
                           fsops |-> <<filename, filename, filename>>,
                           executed |-> <<<<filename, mtime>>>>]

\* the history with the executions of the sequence counted in
RECURSIVE Recorded(_, _)
Recorded(h, execs) ==
    IF execs = <<>> THEN h
    ELSE LET e == execs[1]
             counted == [x \in DOMAIN h \cup {e} |->
                            IF x = e THEN (IF e \in DOMAIN h THEN h[e] + 1 ELSE 1)
                            ELSE h[x]]
         IN  Recorded(counted, Tail(execs))

NoHistory == [e \in {} |-> 0]

-----------------------------------------------------------------------------
(* Site.handle_static_file *)

\* lines 67-70
StaticFilename(p) == OsPathJoin(site_root, CleanParts(p))

NotFound == [kind |-> "NotFound"]

handle_static_file(p) ==
    LET filename == StaticFilename(p)
    IN  [response |-> IF ~IsFile(filename) THEN NotFound
                      ELSE [kind |-> "StaticFileResponse", filename |-> filename],
         fsops |-> <<filename>>]

-----------------------------------------------------------------------------
(* Site.find_template *)

\* The alternation u'|'.join(re.escape(e) for e in engines) inside the group
\* ( ... ): the strings the second group can match.  Joining no name gives
\* the empty pattern, which matches the empty string.
EngineAlternatives == IF engines = {} THEN {<<>>} ELSE engines

\* re.match(re.escape(base) + ur'\.(.+)\.(' + alternatives + u')$', name):
\* the pairs <<group 1, group 2>> of the ways name can be cut
SuffixCuts(base, name) ==
    { <<SubSeq(name, Len(base) + 2, Len(name) - Len(e) - 1), e>> :
        e \in { a \in EngineAlternatives :
                  /\ Len(name) >= Len(base) + Len(a) + 3
                  /\ StartsWith(name, base \o <<Dot>>)
                  /\ EndsWith(name, <<Dot>> \o a) } }

\* the match object: (.+) is greedy, so group 1 is the longest possible
Matches(base, name) == SuffixCuts(base, name) # {}
MatchGroups(base, name) ==
    CHOOSE c \in SuffixCuts(base, name) :
        \A d \in SuffixCuts(base, name) : Len(d[1]) <= Len(c[1])

\* lines 196-201: the list of (dir_parts, basename)
SearchesSiblingFirst(path_parts) ==
    (IF path_parts # <<>>
     THEN << <<Front(path_parts), Last(path_parts)>> >> ELSE <<>>)
    \o << <<path_parts, <<"index">>>> >>
Searches(path_parts) ==
    << <<path_parts, <<"index">>>> >>
    \o (IF path_parts # <<>>
        THEN << <<Front(path_parts), Last(path_parts)>> >> ELSE <<>>)

\* lines 204-210 for one search: the triples the loop over os.listdir can
\* return (the order of the listing is the host's)
SearchResults(search) ==
    LET dir_parts == search[1]
        dirname == OsPathJoin(site_root, dir_parts)
    IN  IF ~IsDir(dirname) THEN {}
        ELSE { <<Join(Slash, dir_parts \o <<name>>),
                 MatchGroups(search[2], name)[1],
                 MatchGroups(search[2], name)[2]>> :
               name \in { n \in ListDir(dirname) : Matches(search[2], n) } }

SearchFsops(search) ==
    LET dirname == OsPathJoin(site_root, search[1])
    IN  IF IsDir(dirname) THEN <<dirname, dirname>> ELSE <<dirname>>

\* the loop of lines 203-210 over the searches that are left
RECURSIVE FindIn(_)
FindIn(searches) ==
    IF searches = <<>> THEN [results |-> {None}, fsops |-> <<>>]
    ELSE LET found == SearchResults(searches[1])
             rest == FindIn(Tail(searches))
         IN  IF found # {}
             THEN [results |-> found, fsops |-> SearchFsops(searches[1])]
             ELSE [results |-> rest.results,
                   fsops |-> SearchFsops(searches[1]) \o rest.fsops]

\* Site.find_template(path): the values it can return, and what it touched
find_template(p) == FindIn(Searches(CleanParts(p)))

-----------------------------------------------------------------------------
(* Site.handle_python *)

\* for suffix in (u'', u'/index')
Suffixes == << <<>>, <<"/", "index">> >>

\* What a run of handle_python has done so far: the cache, the names given to
\* load_python_module (with the strategy that gave them), the filenames
\* touched, the executions, and the (script_name, path_info) of every
\* iteration of the while loop.
StartState(cache) ==
    [cache |-> cache, loads |-> <<>>, fsops |-> <<>>, executed |-> <<>>,
     iterations |-> <<>>]

\* the element of a set of one element; The({ e(x) : x \in {v} }) is e(v),
\* with v computed once
The(S) == CHOOSE x \in S : TRUE

LoadIn(st, strategy, name) ==
    The({ [name |-> name,
           module |-> r.module,
           st |-> [st EXCEPT !.cache = r.cache,
                             !.loads = @ \o <<[strategy |-> strategy, name |-> name,
                                               filename |-> r.fsops[1]]>>,
                             !.fsops = @ \o r.fsops,
                             !.executed = @ \o r.executed]] :
          r \in { load_python_module(st.cache, name) } })

\* line 97: utils.arg_count(handler) == 1
TakesRequestOnlyAtLeastOne(handler) == arg_count(handler) >= 1
TakesRequestOnly(handler) == arg_count(handler) = 1

\* line 110: utils.arg_count(handler) > 1
TakesPathInfoExactlyTwo(handler) == arg_count(handler) = 2
TakesPathInfo(handler) == arg_count(handler) > 1

\* handler(request) and handler(request, path_info): the call made.  What the
\* handler answers is its own business; the response names the call.
Invocation(strategy, name, handler, args) ==
    [strategy |-> strategy, name |-> name, filename |-> ModuleFilename(name),
     handler |-> handler, args |-> args]

\* lines 92-98: the loop over the suffixes, from the suffixes that are left
RECURSIVE StrategyA(_, _, _)
StrategyA(st, p, suffixes) ==
    IF suffixes = <<>> THEN [invoked |-> None, strategyB |-> FALSE, st |-> st]
    ELSE The({ IF HasHandler(l.module) /\ TakesRequestOnly(l.module.handle_request)
               THEN [invoked |-> Invocation("A", l.name, l.module.handle_request,
                                            <<"request">>),
                     strategyB |-> FALSE,
                     st |-> l.st]
               ELSE StrategyA(l.st, p, Tail(suffixes)) :
               l \in { LoadIn(st, "A", Strip(p) \o suffixes[1]) } })

\* lines 105-111: the inner loop over the suffixes for one script_name
RECURSIVE TryPrefix(_, _, _, _)
TryPrefix(st, script_name, path_info, suffixes) ==
    IF suffixes = <<>> THEN [invoked |-> None, strategyB |-> TRUE, st |-> st]
    ELSE The({ IF HasHandler(l.module) /\ TakesPathInfo(l.module.handle_request)
               THEN [invoked |-> Invocation("B", l.name, l.module.handle_request,
                                            <<"request", Join(Slash, path_info)>>),
                     strategyB |-> TRUE,
                     st |-> l.st]
               ELSE TryPrefix(l.st, script_name, path_info, Tail(suffixes)) :
               l \in { LoadIn(st, "B", Join(Slash, script_name) \o suffixes[1]) } })

\* line 114: path_info.appendleft(script_name.pop())
PushLeft(script_name, path_info) == <<Last(script_name)>> \o path_info

\* lines 104-116: the while loop, from the state (script_name, path_info)
RECURSIVE StrategyB(_, _, _)
StrategyB(st, script_name, path_info) ==
    IF script_name = <<>> THEN [invoked |-> None, strategyB |-> TRUE, st |-> st]
    ELSE The({ IF r.invoked # None THEN r
               ELSE StrategyB(r.st, Front(script_name),
                              PushLeft(script_name, path_info)) :
               r \in { TryPrefix([st EXCEPT !.iterations =
                                     @ \o <<[script_name |-> script_name,
                                             path_info |-> path_info]>>],
                                 script_name, path_info, Suffixes) } })

\* Site.handle_python(request): strategy A, then strategy B, then NotFound
handle_python(cache, p) ==
    The({ [response |-> IF r.invoked = None THEN NotFound
                        ELSE [kind |-> "HandlerResult", call |-> r.invoked],
           invoked |-> r.invoked,
           strategyB |-> r.strategyB,
           st |-> r.st] :
          r \in { IF a.invoked # None THEN a
                  ELSE StrategyB(a.st, CleanParts(p), <<>>) :
                  a \in { StrategyA(StartState(cache), p, Suffixes) } } })

\* handle_python was not entered
NoPython == [entered |-> FALSE]

-----------------------------------------------------------------------------
(* Site.handle_simple_template *)

\* what engine.render(template_name, values) can do: return the content, or
\* raise an HTTP exception (NotFound is one of them)
RenderOutcomes == {"content", "NotFound", "Forbidden"}

\* the outcomes of render for the template found: render is called only when
\* a template is found and its engine is registered (line 131)
Renders(tmpl) ==
    IF tmpl = None \/ tmpl[3] \notin engines THEN {"not called"}
    ELSE RenderOutcomes

\* lines 123-132, the template found and the outcome of render given
handle_simple_template(tmpl, outcome) ==
    IF tmpl = None THEN [raised |-> TRUE, response |-> NotFound]
    ELSE IF tmpl[3] \notin engines
    THEN [raised |-> TRUE, response |-> [kind |-> "KeyError"]]
    ELSE IF outcome = "content"
    THEN [raised |-> FALSE,
          response |-> [kind |-> "Response", template_name |-> tmpl[1],
                        extension |-> tmpl[2], engine |-> tmpl[3]]]
    ELSE [raised |-> TRUE, response |-> [kind |-> outcome]]

-----------------------------------------------------------------------------
(* Site.__call__ *)

\* line 51: u'/__' in request.path
IsStaticRequestFirstSegment(p) == StartsWith(p, <<"/", "__">>)
IsStaticRequest(p) == Contains(p, <<"/", "__">>)

\* line 55: the exceptions of handle_simple_template that `except NotFound`
\* catches
Caught(tmpl, t) == t.raised /\ t.response = NotFound

\* what the variables that describe a call hold between two calls
Idle ==
    /\ phase = "idle"
    /\ path = <<>>
    /\ attempted = <<>>
    /\ fsops = <<>>
    /\ template = None
    /\ python = NoPython
    /\ response = None

\* Site.__call__(request) with request.path = p, from the first line to the
\* return (lines 46-59)
Call(p) ==
    /\ phase = "idle"
    /\ phase' = "done"
    /\ path' = p
    /\ IF IsStaticRequest(p)
       THEN \E s \in { handle_static_file(p) } :
                /\ attempted' = <<"static">>
                /\ fsops' = s.fsops
                /\ template' = None
                /\ python' = NoPython
                /\ response' = s.response
                /\ executed' = <<>>
                /\ UNCHANGED <<module_cache, history>>
       ELSE \E ft \in { find_template(p) } :
            \E tmpl \in ft.results : \E outcome \in Renders(tmpl) :
            \E t \in { handle_simple_template(tmpl, outcome) } :
                /\ template' = tmpl
                /\ IF Caught(tmpl, t)
                   THEN \E hp \in { handle_python(module_cache, p) } :
                            /\ attempted' = <<"template", "python">>
                            /\ fsops' = ft.fsops \o hp.st.fsops
                            /\ python' = [entered |-> TRUE,
                                          loads |-> hp.st.loads,
                                          iterations |-> hp.st.iterations,
                                          strategyB |-> hp.strategyB,
                                          invoked |-> hp.invoked]
                            /\ response' = hp.response
                            /\ executed' = hp.st.executed
                            /\ history' = Recorded(history, hp.st.executed)
                            /\ module_cache' = hp.st.cache
                   ELSE /\ attempted' = <<"template">>
                        /\ fsops' = ft.fsops
                        /\ python' = NoPython
                        /\ response' = t.response
                        /\ executed' = <<>>
                        /\ UNCHANGED <<module_cache, history>>
    /\ UNCHANGED <<engines, files, clock, threads>>

\* the host takes the response; the site waits for the next request
NextRequest ==
    /\ phase = "done"
    /\ phase' = "idle"
    /\ path' = <<>>
    /\ attempted' = <<>>
    /\ fsops' = <<>>
    /\ template' = None
    /\ python' = NoPython
    /\ response' = None
    /\ executed' = <<>>
    /\ UNCHANGED <<engines, files, clock, module_cache, history, threads>>

-----------------------------------------------------------------------------
(* The sites and the requests of the routing specification *)

\* the request paths of at most n segments taken from segs; request.path
\* always starts with a slash
RequestPaths(segs, n) ==
    { <<Slash>> \o Join(Slash, s) : s \in UNION { [1..k -> segs] : k \in 0..n } }

SiteSegments == { <<>>, DotDot, <<"foo">>, <<"bar">>, <<"__">> }
SitePaths == RequestPaths(SiteSegments, MaxSegs)

\* the contents of a module file: the names it binds at top level, with the
\* number of parameters of handle_request
ModuleContents ==
    { [other |-> 0] } \cup { [handle_request |-> n] : n \in 1..3 }
Text == [text |-> 0]

File(parts) == OsPathJoin(site_root, parts)
Py == <<".", "py">>

SiteEntries ==
    { [filename |-> f, content |-> c] :
        f \in { site_root \o Py,
                File(<< <<"index">> \o Py >>),
                File(<< <<"foo">> \o Py >>),
                File(<< <<"foo">>, <<"index">> \o Py >>),
                File(<< <<"foo">>, <<"bar">> \o Py >>) },
        c \in ModuleContents }
    \cup
    { [filename |-> f, content |-> Text] :
        f \in { File(<< <<"__">>, <<"foo">> >>),
                File(<< <<"index", ".", "html", ".", "genshi">> >>),
                File(<< <<"foo", ".", "html", ".", "jinja2">> >>) } }

\* the filesystem that holds the given entries, all written at time 1
Filesystem(entries) ==
    [f \in { e.filename : e \in entries } |->
        [content |-> (CHOOSE e \in entries : e.filename = f).content,
         mtime |-> 1]]

\* the sites of no, one or two files
SiteFilesystems ==
    { Filesystem({}) } \cup
    { Filesystem({a, b}) :
        <<a, b>> \in { x \in SiteEntries \X SiteEntries :
                         x[1].filename # x[2].filename \/ x[1] = x[2] } }

NoThreads == <<>>
EmptyCache == [f \in {} |-> 0]

InitSite ==
    /\ engines = { <<"genshi">>, <<"jinja2">> }
    /\ files \in SiteFilesystems
    /\ clock = 2
    /\ module_cache = EmptyCache
    /\ executed = <<>>
    /\ history = NoHistory
    /\ threads = NoThreads
    /\ Idle

NextSite ==
    \/ \E p \in SitePaths : Call(p)
    \/ NextRequest

SpecSite == InitSite /\ [][NextSite]_vars

-----------------------------------------------------------------------------
(* Routing: the claims about Site.__call__ and Site.handle_python *)

\* a call has been handled and the variables describe it
Handled == phase = "done" /\ attempted # <<>>

\* the segments of the request path, and the cleaned ones
Segments == Split(path)
Cleaned == SelectSeq(Segments, LAMBDA part : part # <<>> /\ part # DotDot)

\* the path has a segment that starts with two underscores
HasMarkerSegment ==
    \E i \in 1..Len(Segments) : StartsWith(Segments[i], <<"__">>)

\* the file below the site root named by the given segments
RECURSIVE Below(_)
Below(parts) ==
    IF parts = <<>> THEN site_root
    ELSE Below(Front(parts)) \o <<Slash>> \o Last(parts)

\* C1: a path with a marker segment is answered by the static resolver alone,
\* with the file when it exists and NotFound otherwise, and the template and
\* module resolvers are not entered; any other path enters the template
\* resolver first, the module resolver only after it, and never the static one.
C1_ResolverOrder ==
    Handled =>
        IF HasMarkerSegment
        THEN /\ attempted = <<"static">>
             /\ python = NoPython
             /\ template = None
             /\ response = IF Below(Cleaned) \in DOMAIN files
                           THEN [kind |-> "StaticFileResponse",
                                 filename |-> Below(Cleaned)]
                           ELSE NotFound
        ELSE /\ attempted \in { <<"template">>, <<"template", "python">> }
             /\ python.entered <=> attempted = <<"template", "python">>

C1_Witness ==
    /\ Handled
    /\ HasMarkerSegment
    /\ response # NotFound

\* the path is the site root joined with segments that are neither empty nor
\* "..": it names the root or something below it
InsideSiteRoot(f) ==
    \/ f = site_root
    \/ /\ StartsWith(f, site_root \o <<Slash>>)
       /\ LET rest == Split(SubSeq(f, Len(site_root) + 2, Len(f)))
          IN  \A i \in 1..Len(rest) : rest[i] # <<>> /\ rest[i] # DotDot

\* C2: every filename a call tests, lists, stats or executes lies inside the
\* site root.
C2_InsideSiteRoot ==
    \A i \in 1..Len(fsops) : InsideSiteRoot(fsops[i])

\* the number of parameters of handle_request in the module file, 0 when the
\* file does not exist or binds no handle_request
Declared(filename) ==
    IF filename \in DOMAIN files
       /\ "handle_request" \in DOMAIN files[filename].content
    THEN files[filename].content.handle_request
    ELSE 0

\* the two module files of the prefix of k cleaned segments; the empty prefix
\* is the module index
PrefixFiles(k) ==
    IF k = 0 THEN << Below(<< <<"index">> >>) \o Py >>
    ELSE << Below(SubSeq(Cleaned, 1, k)) \o Py,
            Below(SubSeq(Cleaned, 1, k) \o << <<"index">> >>) \o Py >>

HasPrefixHandler(k) ==
    \E i \in 1..Len(PrefixFiles(k)) : Declared(PrefixFiles(k)[i]) > 1

\* strategy B ran: handle_python was entered and strategy A invoked nothing
StrategyBRan == Handled /\ python.entered /\ python.strategyB

\* C3: strategy B goes down to the empty prefix: when no non-empty prefix has
\* a handler with more than one parameter and index.py at the site root has
\* one, that handler is invoked with the whole cleaned path; NotFound is the
\* outcome only when no prefix length from n down to 0 has such a handler.
C3_EmptyPrefixTried ==
    StrategyBRan =>
        /\ ( /\ \A k \in 1..Len(Cleaned) : ~HasPrefixHandler(k)
             /\ HasPrefixHandler(0) )
           => /\ python.invoked # None
              /\ python.invoked.filename = PrefixFiles(0)[1]
              /\ python.invoked.args = <<"request", Join(Slash, Cleaned)>>
        /\ response = NotFound
           => \A k \in 0..Len(Cleaned) : ~HasPrefixHandler(k)

\* the module files of the full path, in the order strategy A tries them
FullPathFiles ==
    << Below(Cleaned) \o Py, Below(Cleaned \o << <<"index">> >>) \o Py >>

HandlerCall(filename, args) ==
    /\ python.invoked # None
    /\ python.invoked.filename = filename
    /\ python.invoked.handler = Declared(filename)
    /\ python.invoked.args = args
    /\ response = [kind |-> "HandlerResult", call |-> python.invoked]

StrategyBNotStarted ==
    /\ python.iterations = <<>>
    /\ \A i \in 1..Len(python.loads) : python.loads[i].strategy = "A"

\* C4: when <full-path>.py, or else <full-path>/index.py, declares a
\* handle_request of exactly one parameter, handle_python invokes it with the
\* request alone, returns its result and never starts strategy B; strategy A
\* never invokes a handler that declares another number of parameters.
C4_ExactPathFirst ==
    (Handled /\ python.entered) =>
        /\ Declared(FullPathFiles[1]) = 1
           => HandlerCall(FullPathFiles[1], <<"request">>) /\ StrategyBNotStarted
        /\ (Declared(FullPathFiles[1]) # 1 /\ Declared(FullPathFiles[2]) = 1)
           => HandlerCall(FullPathFiles[2], <<"request">>) /\ StrategyBNotStarted
        /\ (python.invoked # None /\ Len(python.invoked.args) = 1)
           => python.invoked.handler = 1
        /\ (Declared(FullPathFiles[1]) # 1 /\ Declared(FullPathFiles[2]) # 1)
           => python.strategyB

C4_Witness ==
    /\ Handled /\ python.entered
    /\ Len(Cleaned) = 2
    /\ Declared(FullPathFiles[1]) = 1
    /\ HasPrefixHandler(1)
    /\ python.invoked # None

\* the cleaned segments strategy B has not consumed at prefix length k
Remainder(k) == SubSeq(Cleaned, k + 1, Len(Cleaned))

\* C5: in strategy B every iteration has prefix \o remainder = the cleaned
\* segments; a handler it invokes declares more than one parameter, sits at
\* the longest prefix that has such a handler, in <prefix>.py rather than
\* <prefix>/index.py when both have one, and receives the unconsumed segments
\* joined by "/"; the loop makes at most two loads per prefix length.
C5_PrefixRemainder ==
    StrategyBRan =>
        LET its == python.iterations
            loadsB == SelectSeq(python.loads, LAMBDA l : l.strategy = "B")
        IN  /\ \A i \in 1..Len(its) :
                  /\ its[i].script_name \o its[i].path_info = Cleaned
                  /\ Len(its[i].script_name) = Len(Cleaned) - i + 1
            /\ Len(loadsB) <= 2 * Len(its)
            /\ Len(its) <= Len(Cleaned)
            /\ python.invoked # None =>
                  \E k \in 1..Len(Cleaned) :
                    /\ HasPrefixHandler(k)
                    /\ \A j \in (k + 1)..Len(Cleaned) : ~HasPrefixHandler(j)
                    /\ python.invoked.filename =
                          IF Declared(PrefixFiles(k)[1]) > 1
                          THEN PrefixFiles(k)[1] ELSE PrefixFiles(k)[2]
                    /\ python.invoked.handler = Declared(python.invoked.filename)
                    /\ python.invoked.handler > 1
                    /\ python.invoked.args = <<"request", Join(Slash, Remainder(k))>>
            /\ python.invoked = None =>
                  \A k \in 1..Len(Cleaned) : ~HasPrefixHandler(k)

C5_Witness ==
    /\ StrategyBRan
    /\ python.invoked # None
    /\ python.invoked.args = <<"request", <<"bar">>>>
    /\ Len(python.iterations) = 2

\* C10: handle_python is entered only when find_template found nothing; once
\* a template is found the outcome is the rendered response or the HTTP
\* exception the engine raised.
C10_PythonOnlyOnMiss ==
    Handled =>
        /\ python.entered => template = None
        /\ template # None
           => response.kind \in {"Response"} \cup (RenderOutcomes \ {"content"})

-----------------------------------------------------------------------------
(* The template specification: Site.handle_simple_template on sites that   *)
(* hold templates, under every registry of engines                         *)

\* Site.handle_simple_template(request) with request.path = p (lines 118-132)
HandleSimpleTemplate(p) ==
    /\ phase = "idle"
    /\ phase' = "done"
    /\ path' = p
    /\ attempted' = <<"template">>
    /\ \E ft \in { find_template(p) } :
       \E tmpl \in ft.results : \E outcome \in Renders(tmpl) :
             /\ template' = tmpl
             /\ fsops' = ft.fsops
             /\ response' = handle_simple_template(tmpl, outcome).response
    /\ UNCHANGED <<engines, files, clock, module_cache, python, executed,
                   history, threads>>

TemplateSegments == { <<>>, DotDot, <<"hello">>, <<"lorem">> }

\* the paths of the doctest of find_template (lines 176-186)
DoctestPaths ==
    { <<"/">>, <<"/", "nonexistent">>, <<"/", "hello", "/">>,
      <<"/", "hello", "/", "world">>, <<"/", "lorem", "/">>,
      <<"/", "lorem", "/", "ipsum">> }

TemplatePaths ==
    RequestPaths(TemplateSegments, MaxSegs) \cup DoctestPaths \cup { <<>> }

\* the directory structure of the doctest of find_template (lines 166-174)
DoctestFiles ==
    { File(<< <<"index", ".", "html", ".", "genshi">> >>),
      File(<< <<"hello", ".", "html", ".", "jinja2">> >>),
      File(<< <<"hello">>, <<"index", ".", "genshi">> >>),
      File(<< <<"hello">>, <<"index", ".", "html">> >>),
      File(<< <<"hello">>, <<"index", ".", "html", ".", "foo">> >>),
      File(<< <<"lorem">>, <<"index", ".", "txt", ".", "jinja2">> >>) }

TemplateFiles ==
    DoctestFiles \cup
    { File(<< <<"index", ".", "html", ".">> >>),
      File(<< <<"lorem", ".", "html", ".", "genshi">> >>),
      File(<< <<"hello">>, <<"index", ".", "txt", ".", "html", ".", "genshi">> >>),
      File(<< <<"hello">>, <<"index", ".", "html", ".", "jinja2">> >>) }

TextFiles(names) == Filesystem({ [filename |-> f, content |-> Text] : f \in names })

\* the doctest site, and the sites of no, one or two template files
TemplateFilesystems ==
    { TextFiles(DoctestFiles) } \cup
    { TextFiles({f, g}) : <<f, g>> \in TemplateFiles \X TemplateFiles } \cup
    { TextFiles({}) }

InitTemplate ==
    /\ engines \in SUBSET { <<"genshi">>, <<"jinja2">> }
    /\ files \in TemplateFilesystems
    /\ clock = 2
    /\ module_cache = EmptyCache
    /\ executed = <<>>
    /\ history = NoHistory
    /\ threads = NoThreads
    /\ Idle

NextTemplate ==
    \/ \E p \in TemplatePaths : HandleSimpleTemplate(p)
    \/ NextRequest

SpecTemplate == InitTemplate /\ [][NextTemplate]_vars

-----------------------------------------------------------------------------
(* Templates: the claims about Site.find_template *)

\* a template lookup has been made and the variables describe it
LookedUp == phase = "done" /\ attempted = <<"template">>

\* the entries of the directory named by the segments: the names that
\* directly follow it in the name of some file
Entries(dir_parts) ==
    { Split(SubSeq(f, Len(Below(dir_parts)) + 2, Len(f)))[1] :
        f \in { g \in DOMAIN files : StartsWith(g, Below(dir_parts) \o <<Slash>>) } }

\* the ways to read name as base.<type>.<field>, <type> not empty:
\* the set of <<type, field>>
Readings(base, name) ==
    { <<SubSeq(name, Len(base) + 2, j - 1), SubSeq(name, j + 1, Len(name))>> :
        j \in { i \in (Len(base) + 3)..Len(name) :
                  /\ SubSeq(name, 1, Len(base)) = base
                  /\ name[Len(base) + 1] = Dot
                  /\ name[i] = Dot } }

\* the last dot-delimited field of a name
RECURSIVE LastField(_)
LastField(name) ==
    IF name = <<>> \/ Last(name) = Dot THEN <<>>
    ELSE LastField(Front(name)) \o <<Last(name)>>

\* the triples the search of base in the directory can give, with <engine> a
\* registered engine
Found(dir_parts, base) ==
    UNION { { <<Join(Slash, dir_parts \o <<n>>), r[1], r[2]>> :
                r \in { q \in Readings(base, n) : q[2] \in engines } } :
            n \in Entries(dir_parts) }

\* what the doctest of find_template prints for each of its paths
Doctest ==
    [ p \in DoctestPaths |->
        CASE p = <<"/">> ->
               << <<"index", ".", "html", ".", "genshi">>, <<"html">>, <<"genshi">> >>
          [] p = <<"/", "hello", "/">> ->
               << <<"hello", ".", "html", ".", "jinja2">>, <<"html">>, <<"jinja2">> >>
          [] p = <<"/", "lorem", "/">> ->
               << <<"lorem", "/", "index", ".", "txt", ".", "jinja2">>, <<"txt">>,
                  <<"jinja2">> >>
          [] OTHER -> None ]

IsDoctestSite ==
    DOMAIN files = DoctestFiles /\ engines = { <<"genshi">>, <<"jinja2">> }

\* C7: with engines registered, find_template returns a match of search 1
\* (index.<type>.<engine> in the directory of all the segments) when there is
\* one; otherwise, for a path with a segment, a match of search 2
\* (<last segment>.<type>.<engine> in the directory of the other segments)
\* when there is one; otherwise nothing.  A match is (directory/filename,
\* type, engine).  On the doctest site the doctest's six answers come out.
C7_TwoSearches ==
    (LookedUp /\ engines # {}) =>
        /\ IF Found(Cleaned, <<"index">>) # {}
           THEN template \in Found(Cleaned, <<"index">>)
           ELSE IF Cleaned # <<>> /\ Found(Front(Cleaned), Last(Cleaned)) # {}
           THEN template \in Found(Front(Cleaned), Last(Cleaned))
           ELSE template = None
        /\ (IsDoctestSite /\ path \in DoctestPaths) => template = Doctest[path]

C7_Witness ==
    /\ LookedUp
    /\ IsDoctestSite
    /\ path = <<"/", "hello", "/">>
    /\ template # None

\* C8: whatever the registry, empty or not, a template found is an entry
\* whose last dot-delimited field is a registered engine, read as
\* <base>.<type>.<engine> with a type that is not empty; its engine name is in
\* the registry and the lookup of the engine succeeds.
C8_RegisteredEngine ==
    LookedUp =>
        /\ template # None =>
             /\ template[3] \in engines
             /\ template[2] # <<>>
             /\ LastField(template[1]) \in engines
        /\ response.kind # "KeyError"

-----------------------------------------------------------------------------
(* The cache specification: Site.load_python_module called again and again *)
(* while module files are written and removed                              *)

\* Site.load_python_module(name), run without interruption (lines 134-155)
Load(name) ==
    /\ phase = "idle"
    /\ phase' = "done"
    /\ path' = name
    /\ \E r \in { load_python_module(module_cache, name) } :
           /\ response' = [kind |-> "module", module |-> r.module]
           /\ module_cache' = r.cache
           /\ fsops' = r.fsops
           /\ executed' = r.executed
           /\ history' = Recorded(history, r.executed)
    /\ UNCHANGED <<engines, files, clock, attempted, template, python, threads>>

\* the site owner creates the module file or changes its content; the file
\* gets a modification time it never had
WriteFile(filename, content) ==
    /\ phase = "idle"
    /\ clock <= MaxClock
    /\ filename \in DOMAIN files => files[filename].content # content
    /\ files' = [f \in DOMAIN files \cup {filename} |->
                    IF f = filename THEN [content |-> content, mtime |-> clock]
                    ELSE files[f]]
    /\ clock' = clock + 1
    /\ UNCHANGED <<engines, module_cache, phase, path, attempted, fsops,
                   template, python, response, executed, history, threads>>

\* the site owner removes the module file
RemoveFile(filename) ==
    /\ phase = "idle"
    /\ filename \in DOMAIN files
    /\ files' = [f \in DOMAIN files \ {filename} |-> files[f]]
    /\ UNCHANGED <<engines, clock, module_cache, phase, path, attempted, fsops,
                   template, python, response, executed, history, threads>>

\* the module names loaded: two names of foo.py, and bar.py
LoadNames == { <<"foo">>, <<".", ".", "/", "foo", "/">>, <<"bar">> }
LoadFiles == { File(<< <<"foo">> \o Py >>), File(<< <<"bar">> \o Py >>) }
LoadContents == { [other |-> 0], [handle_request |-> 1], [handle_request |-> 2] }

InitCache ==
    /\ engines = { <<"genshi">>, <<"jinja2">> }
    /\ files = Filesystem({})
    /\ clock = 1
    /\ module_cache = EmptyCache
    /\ executed = <<>>
    /\ history = NoHistory
    /\ threads = NoThreads
    /\ Idle

NextCache ==
    \/ \E name \in LoadNames : Load(name)
    \/ \E f \in LoadFiles, c \in LoadContents : WriteFile(f, c)
    \/ \E f \in LoadFiles : RemoveFile(f)
    \/ NextRequest

SpecCache == InitCache /\ [][NextCache]_vars

-----------------------------------------------------------------------------
(* The module cache: the claim about Site.load_python_module *)

\* the module file the name loaded stands for
Loaded == Below(Cleaned) \o Py

\* the symbol table is the one an execution of the content gives: the names
\* the content binds, and __name__
IsModuleOf(module, content) ==
    /\ DOMAIN module = DOMAIN content \cup {"__name__"}
    /\ \A k \in DOMAIN content : module[k] = content[k]

\* a step of load_python_module
LoadStep == phase = "idle" /\ phase' = "done"

\* C6: a load of an existing file executes it iff the cache has no entry for
\* it or the entry's timestamp differs from the file's; it returns the symbol
\* table of the file's content and leaves exactly that symbol table and
\* timestamp as the file's entry, the other entries untouched; a load of a
\* file that does not exist returns the empty symbol table, executes nothing
\* and leaves the cache unchanged; no file is executed twice with the same
\* timestamp.
C6_CacheCorrect ==
    /\ [][LoadStep =>
           LET f == Loaded'
           IN  IF f \in DOMAIN files
               THEN /\ (executed' # <<>>) <=>
                         (f \notin DOMAIN module_cache
                          \/ module_cache[f].mtime # files[f].mtime)
                    /\ executed' \in { <<>>, << <<f, files[f].mtime>> >> }
                    /\ IsModuleOf(response'.module, files[f].content)
                    /\ DOMAIN module_cache' = DOMAIN module_cache \cup {f}
                    /\ module_cache'[f] = [module |-> response'.module,
                                           mtime |-> files[f].mtime]
                    /\ \A g \in DOMAIN module_cache \ {f} :
                         module_cache'[g] = module_cache[g]
               ELSE /\ response'.module = EmptyDict
                    /\ executed' = <<>>
                    /\ module_cache' = module_cache]_vars
    /\ [](\A e \in DOMAIN history : history[e] = 1)

\* a module was loaded, modified and loaded again: it ran a second time
C6_Witness ==
    /\ phase = "done"
    /\ executed # <<>>
    /\ \E e \in DOMAIN history : e[1] = executed[1][1] /\ e[2] < executed[1][2]

-----------------------------------------------------------------------------
(* The threads specification: several threads inside load_python_module    *)
(* for the same module, one statement at a time, while the file is         *)
(* rewritten                                                               *)

\* two threads serve requests on the same Site
Threads == {"t1", "t2"}

\* the module every thread loads
SharedName == <<"foo">>
SharedFile == ModuleFilename(SharedName)

\* a thread outside load_python_module
Outside == [pc |-> "outside", mtime |-> 0, module |-> EmptyDict, started |-> 0]

Goto(t, where) == threads' = [threads EXCEPT ![t] = where]

NoCall == UNCHANGED <<engines, phase, path, attempted, fsops, template, python,
                      response, executed>>

\* lines 140-143: the thread enters and tests the file.  `started` notes the
\* revision on disk at that moment.
Enter(t) ==
    /\ threads[t].pc = "outside"
    /\ IF ~IsFile(SharedFile)
       THEN Goto(t, [Outside EXCEPT !.pc = "returned"])
       ELSE Goto(t, [Outside EXCEPT !.pc = "stat",
                                    !.started = files[SharedFile].content.REV])
    /\ NoCall /\ UNCHANGED <<files, clock, module_cache, history>>

\* line 144: mtime = os.stat(filename).st_mtime
Stat(t) ==
    /\ threads[t].pc = "stat"
    /\ Goto(t, [threads[t] EXCEPT !.pc = "lookup",
                                  !.mtime = StatMtime(SharedFile)])
    /\ NoCall /\ UNCHANGED <<files, clock, module_cache, history>>

\* lines 145-150: the entry is read in one piece and compared
Lookup(t) ==
    /\ threads[t].pc = "lookup"
    /\ IF CacheHit(module_cache, SharedFile, threads[t].mtime)
       THEN Goto(t, [threads[t] EXCEPT !.pc = "returned",
                                       !.module = module_cache[SharedFile].module])
       ELSE Goto(t, [threads[t] EXCEPT !.pc = "exec"])
    /\ NoCall /\ UNCHANGED <<files, clock, module_cache, history>>

\* lines 152-153: the file is executed in a namespace of the thread's own
Execfile(t) ==
    /\ threads[t].pc = "exec"
    /\ Goto(t, [threads[t] EXCEPT
                  !.pc = "store",
                  !.module = Exec(SharedFile, ModuleParts(SharedName))])
    /\ history' = Recorded(history, << <<SharedFile, threads[t].mtime>> >>)
    /\ NoCall /\ UNCHANGED <<files, clock, module_cache>>

\* lines 154-155: the entry is replaced in one piece, the namespace returned
Store(t) ==
    /\ threads[t].pc = "store"
    /\ module_cache' = CacheStore(module_cache, SharedFile, threads[t].module,
                                  threads[t].mtime)
    /\ Goto(t, [threads[t] EXCEPT !.pc = "returned"])
    /\ NoCall /\ UNCHANGED <<files, clock, history>>

\* the caller has the symbol table; the thread is free for the next request
Return(t) ==
    /\ threads[t].pc = "returned"
    /\ Goto(t, Outside)
    /\ NoCall /\ UNCHANGED <<files, clock, module_cache, history>>

\* the site owner replaces the module file in one step: a new revision of
\* the source, with a modification time the file never had
Rewrite ==
    /\ clock <= MaxClock
    /\ files' = [files EXCEPT ![SharedFile] =
                   [content |-> [REV |-> clock], mtime |-> clock]]
    /\ clock' = clock + 1
    /\ NoCall /\ UNCHANGED <<module_cache, history, threads>>

InitThreads ==
    /\ engines = { <<"genshi">>, <<"jinja2">> }
    /\ files = Filesystem({ [filename |-> SharedFile, content |-> [REV |-> 1]] })
    /\ clock = 2
    /\ module_cache = EmptyCache
    /\ executed = <<>>
    /\ history = NoHistory
    /\ threads = [t \in Threads |-> Outside]
    /\ Idle

NextThreads ==
    \/ \E t \in Threads : Enter(t)
    \/ \E t \in Threads : Stat(t)
    \/ \E t \in Threads : Lookup(t)
    \/ \E t \in Threads : Execfile(t)
    \/ \E t \in Threads : Store(t)
    \/ \E t \in Threads : Return(t)
    \/ Rewrite

SpecThreads == InitThreads /\ [][NextThreads]_vars

\* C9: under every interleaving, an entry of the cache is a pair of a symbol
\* table some thread got from an execution and the timestamp that thread had
\* read before; an entry with the file's current timestamp holds the symbol
\* table of the file's current content; and the symbol table a load returns
\* is never of an older revision than the one on disk when the load started.
C9_RacesOnlyReload ==
    /\ \A f \in DOMAIN module_cache :
         /\ DOMAIN module_cache[f] = {"module", "mtime"}
         /\ <<f, module_cache[f].mtime>> \in DOMAIN history
         /\ module_cache[f].module.REV >= module_cache[f].mtime
         /\ module_cache[f].mtime = files[f].mtime
            => IsModuleOf(module_cache[f].module, files[f].content)
    /\ \A t \in DOMAIN threads :
         threads[t].pc = "returned" => threads[t].module.REV >= threads[t].started

\* two threads executed the same revision (a redundant reload), and a thread
\* returned a symbol table while the cache holds a stale timestamp
C9_Witness ==
    /\ \E e \in DOMAIN history : history[e] > 1
    /\ \E t \in DOMAIN threads : threads[t].pc = "returned"
    /\ SharedFile \in DOMAIN module_cache
    /\ module_cache[SharedFile].mtime < files[SharedFile].mtime

====
